---- MODULE Spec2Model ----
(***************************************************************************)
(* Model of vault/vault.go: the credential-resolution engine               *)
(* (NewTempCredentialsProvider), the provider constructors, the cached     *)
(* session-token provider built by NewSessionTokenProvider, the            *)
(* master-credentials locator (MasterCredentialsFor) and Mfa.GetMfaToken.  *)
(*                                                                         *)
(* Profiles are named 1..n; profile i's SourceProfile is i+1 and the       *)
(* ChainedFromProfile back-reference of i+1 is i.  0 stands for a nil      *)
(* pointer and, as a profile name, for the empty string.  Durations and    *)
(* times are counted in minutes.                                           *)
(***************************************************************************)
EXTENDS Integers, Sequences, FiniteSets, TLC

\* ------------------------------------------------------------------ bounds
\* longest source-profile chain
MaxDepth == 3

\* latest clock reading, in minutes
MaxNow == 2

\* latest expiration of a session found in the keyring at start
MaxCachedExpiration == 12

\* Retrieve calls one invocation makes
MaxRetrieves == 2

\* frames of MasterCredentialsFor the goroutine stack holds
MaxHops == 4

\* frames of NewTempCredentialsProvider the goroutine stack holds
MaxFrames == 6

\* longest key FormatKeyForDisplay is given, the 20-character one apart
MaxKeyLen == 6

\* ------------------------------------------------------------------ values
Nil == 0

Serials == {"", "mfaA", "mfaB"}

RoleARNs == {"", "role"}

\* GetSessionTokenDuration values a profile may be configured with
SessionDurations == {60}

\* ChainedGetSessionTokenDuration values a profile may be configured with
ChainedDurations == {15, 30}

\* static MFA tokens and prompt methods a profile may be configured with
MfaTokens == {"", "123456"}

PromptMethods == {"", "terminal"}

\* what the prompt function can hand back: (token, err)
PromptResults == { [token |-> "654321", err |-> "nil"],
                   [token |-> "", err |-> "prompt failed"] }

NoProvider == [kind |-> "nil"]

NoCreds == [id |-> 0, Expiration |-> 0]

NoError == [kind |-> "nil", profile |-> Nil]

VARIABLES
    \* --- configuration and globals
    cfg,              \* the Config chain: profile name -> Config
    cfg0,             \* the Config chain as it was constructed
    keyring,          \* names with stored master credentials
    UseSession,
    UseSessionCache,
    \* --- NewTempCredentialsProvider
    stack,            \* frames, outermost first
    pc,               \* position of the innermost frame
    sourceCredProvider, \* of the innermost frame once its source is resolved
    retProvider,      \* provider returned by the frame that returned last
    retErr,           \* error returned by the frame that returned last
    hasCalls,         \* names keyring.Has was called with, in order
    mfaChained,       \* per profile: the value computed at vault.go:137
    sourceOf,         \* per profile: the source provider its frame used
    providerOf,       \* per profile: the provider its frame returned
    firstRun,         \* what an earlier run on the same Configs did, if any
    \* --- Retrieve on the provider NewSessionTokenProvider built
    provider,         \* the provider under use
    sessions,         \* keyring entries holding session tokens, by name
    now,              \* the clock
    cpc,              \* per invocation: position inside Retrieve
    readEntry,        \* per invocation: what the cache read found, and when
    fresh,            \* per invocation: credentials the wrapped provider issued
    cret,             \* per invocation: what Retrieve returned
    stpCalls,         \* per invocation: calls of the wrapped provider's Retrieve
    mfaCall,          \* per invocation: the last GetMfaToken call
    retrieves,        \* per invocation: Retrieve calls made
    issued,           \* credentials the service has issued
    \* --- MasterCredentialsFor
    lName,            \* the profileName argument of the innermost call
    lConfig,          \* the config argument (a profile of cfg)
    lHops,            \* recursive calls made
    lPc,
    lRet,             \* (name, err) returned
    \* --- FormatKeyForDisplay
    fKey,             \* the argument k, a sequence of characters
    fPc,
    fOut              \* the string returned, or the panic raised

cfgVars == <<cfg, cfg0, keyring, UseSession, UseSessionCache>>

resolveVars == <<stack, pc, sourceCredProvider, retProvider, retErr, hasCalls,
                 mfaChained, sourceOf, providerOf, firstRun>>

cacheVars == <<provider, sessions, now, cpc, readEntry, fresh, cret, stpCalls,
               mfaCall, retrieves, issued>>

locatorVars == <<lName, lConfig, lHops, lPc, lRet>>

formatVars == <<fKey, fPc, fOut>>

vars == <<cfgVars, resolveVars, cacheVars, locatorVars, formatVars>>

\* ------------------------------------------------------------ Config helpers
Profiles == DOMAIN cfg

HasSourceProfile(config) == config.SourceProfile # Nil

IsChained(config) == config.ChainedFromProfile # Nil

HasMfaSerial(config) == config.MfaSerial # ""

MfaAlreadyUsedInSourceProfile(config) ==
    /\ HasSourceProfile(config)
    /\ config.MfaSerial = cfg[config.SourceProfile].MfaSerial

\* --------------------------------------------------------------------- Mfa
\* GetMfaToken asking the prompt before looking at the static token
GetMfaTokenPromptFirst(m, promptFunc) ==
    IF m.MfaPromptMethod # ""
    THEN [token |-> promptFunc.token, err |-> promptFunc.err,
          prompts |-> <<m.MfaSerial>>]
    ELSE IF m.MfaToken # ""
    THEN [token |-> m.MfaToken, err |-> "nil", prompts |-> <<>>]
    ELSE [token |-> "<nil>", err |-> "No prompt found", prompts |-> <<>>]

\* promptFunc is what prompt.Method(m.MfaPromptMethod) hands back when called;
\* prompts lists the serials it was asked a token for.
GetMfaToken(m, promptFunc) ==
    IF m.MfaToken # ""
    THEN [token |-> m.MfaToken, err |-> "nil", prompts |-> <<>>]
    ELSE IF m.MfaPromptMethod # ""
    THEN [token |-> promptFunc.token, err |-> promptFunc.err,
          prompts |-> <<m.MfaSerial>>]
    ELSE [token |-> "<nil>", err |-> "No prompt found", prompts |-> <<>>]

\* ------------------------------------------------------------- constructors
\* the window written as 5 seconds
defaultExpirationWindowInSeconds == 5 \div 60

defaultExpirationWindow == 5

NewMasterCredentialsProvider(credentialsName) ==
    [kind |-> "KeyringProvider", Name |-> credentialsName]

\* NewSessionTokenProvider keeping the cache under the source profile's name
NewSessionTokenProviderSourceName(creds, config, useCache) ==
    LET sessionTokenProvider ==
            [kind         |-> "SessionTokenProvider",
             Source       |-> creds,
             Duration     |-> config.GetSessionTokenDuration,
             ExpiryWindow |-> defaultExpirationWindow,
             Mfa          |-> [MfaToken        |-> config.MfaToken,
                               MfaPromptMethod |-> config.MfaPromptMethod,
                               MfaSerial       |-> config.MfaSerial]]
    IN  IF useCache
        THEN [kind            |-> "CachedSessionTokenProvider",
              CredentialsName |-> IF HasSourceProfile(config)
                                  THEN config.SourceProfileName
                                  ELSE config.ProfileName,
              ExpiryWindow    |-> defaultExpirationWindow,
              Provider        |-> sessionTokenProvider]
        ELSE sessionTokenProvider

NewSessionTokenProvider(creds, config, useCache) ==
    LET sessionTokenProvider ==
            [kind         |-> "SessionTokenProvider",
             Source       |-> creds,
             Duration     |-> config.GetSessionTokenDuration,
             ExpiryWindow |-> defaultExpirationWindow,
             Mfa          |-> [MfaToken        |-> config.MfaToken,
                               MfaPromptMethod |-> config.MfaPromptMethod,
                               MfaSerial       |-> config.MfaSerial]]
    IN  IF useCache
        THEN [kind            |-> "CachedSessionTokenProvider",
              CredentialsName |-> config.ProfileName,
              ExpiryWindow    |-> defaultExpirationWindow,
              Provider        |-> sessionTokenProvider]
        ELSE sessionTokenProvider

\* NewAssumeRoleProvider passing the configured serial whatever noMfa says
NewAssumeRoleProviderKeepsMfa(creds, config, noMfa) ==
    [kind         |-> "AssumeRoleProvider",
     Source       |-> creds,
     RoleARN      |-> config.RoleARN,
     ExpiryWindow |-> defaultExpirationWindow,
     Mfa          |-> [MfaSerial       |-> config.MfaSerial,
                       MfaToken        |-> config.MfaToken,
                       MfaPromptMethod |-> config.MfaPromptMethod]]

NewAssumeRoleProvider(creds, config, noMfa) ==
    LET mfa == IF noMfa THEN "" ELSE config.MfaSerial
    IN  [kind         |-> "AssumeRoleProvider",
         Source       |-> creds,
         RoleARN      |-> config.RoleARN,
         ExpiryWindow |-> defaultExpirationWindow,
         Mfa          |-> [MfaSerial       |-> mfa,
                           MfaToken        |-> config.MfaToken,
                           MfaPromptMethod |-> config.MfaPromptMethod]]

\* ----------------------------------------------------------- initial values
\* Profile i of a chain of n profiles.
ConfigOf(n, i, role, mfa, dur, chainedDur) ==
    [ProfileName                    |-> i,
     RoleARN                        |-> role,
     MfaSerial                      |-> mfa[1],
     MfaToken                       |-> mfa[2],
     MfaPromptMethod                |-> mfa[3],
     GetSessionTokenDuration        |-> dur,
     ChainedGetSessionTokenDuration |-> chainedDur,
     SourceProfileName              |-> IF i < n THEN i + 1 ELSE Nil,
     SourceProfile                  |-> IF i < n THEN i + 1 ELSE Nil,
     ChainedFromProfile             |-> IF i > 1 THEN i - 1 ELSE Nil]

\* Chains of n profiles; the session-token-duration override is one value for
\* the whole chain, held by each of its Configs.
Chains(n) ==
    { [i \in 1..n |->
          ConfigOf(n, i, c[i][1], <<c[i][2], "", "terminal">>, c[i][3], cd)] :
        c \in [1..n -> RoleARNs \X Serials \X SessionDurations],
        cd \in ChainedDurations }

NoRun == [ran |-> FALSE]

ResolveIdle ==
    /\ stack = <<>>
    /\ pc = "done"
    /\ sourceCredProvider = NoProvider
    /\ retProvider = NoProvider
    /\ retErr = NoError
    /\ hasCalls = <<>>
    /\ mfaChained = [i \in Profiles |-> "unset"]
    /\ sourceOf = [i \in Profiles |-> NoProvider]
    /\ providerOf = [i \in Profiles |-> NoProvider]
    /\ firstRun = NoRun

NoRead == [entry |-> NoCreds, at |-> 0, hit |-> FALSE]

NoReturn == [creds |-> NoCreds, err |-> "nil", fromCache |-> FALSE, at |-> 0]

NoMfaCall == [called |-> FALSE,
              promptFunc |-> [token |-> "", err |-> "nil"],
              res |-> [token |-> "<nil>", err |-> "nil", prompts |-> <<>>]]

CacheIdle ==
    /\ provider = NoProvider
    /\ sessions = [i \in Profiles |-> NoCreds]
    /\ now = 0
    /\ cpc = [p \in {} |-> "idle"]
    /\ readEntry = [p \in {} |-> NoRead]
    /\ fresh = [p \in {} |-> NoCreds]
    /\ cret = [p \in {} |-> NoReturn]
    /\ stpCalls = [p \in {} |-> 0]
    /\ mfaCall = [p \in {} |-> NoMfaCall]
    /\ retrieves = [p \in {} |-> 0]
    /\ issued = {}

LocatorIdle ==
    /\ lName = Nil
    /\ lConfig = Nil
    /\ lHops = 0
    /\ lPc = "done"
    /\ lRet = [name |-> Nil, err |-> "nil"]

NoOutput == [panicked |-> FALSE, out |-> <<>>]

FormatIdle ==
    /\ fKey = <<>>
    /\ fPc = "done"
    /\ fOut = NoOutput

\* ------------------------------------------------------------------- Init
Init ==
    /\ \E n \in 1..MaxDepth :
         /\ cfg \in Chains(n)
         /\ keyring \in SUBSET (1..n)
    /\ cfg0 = cfg
    /\ UseSession \in BOOLEAN
    /\ UseSessionCache \in BOOLEAN
    /\ stack = <<1>>
    /\ pc = "has"
    /\ sourceCredProvider = NoProvider
    /\ retProvider = NoProvider
    /\ retErr = NoError
    /\ hasCalls = <<>>
    /\ mfaChained = [i \in Profiles |-> "unset"]
    /\ sourceOf = [i \in Profiles |-> NoProvider]
    /\ providerOf = [i \in Profiles |-> NoProvider]
    /\ firstRun = NoRun
    /\ CacheIdle
    /\ LocatorIdle
    /\ FormatIdle

\* -------------------------------------------------------------- resolution
Top == stack[Len(stack)]

Pop == SubSeq(stack, 1, Len(stack) - 1)

\* AfterReturn with the caller not looking at the error of the recursive call
AfterReturnIgnoresError(failed) ==
    IF Len(stack) = 1 THEN "done" ELSE "strategy"

\* where the caller of the innermost frame continues
AfterReturn(failed) ==
    IF Len(stack) = 1 THEN "done" ELSE IF failed THEN "failed" ELSE "strategy"

\* SourceDecision preferring the configured source profile to stored credentials
SourceDecisionSourceFirst(config, hasStoredCredentials) ==
    IF HasSourceProfile(config) THEN "source profile"
    ELSE IF hasStoredCredentials THEN "stored"
    ELSE "missing"

\* vault.go:125-135: where the source credentials of config come from
SourceDecision(config, hasStoredCredentials) ==
    IF hasStoredCredentials THEN "stored"
    ELSE IF HasSourceProfile(config) THEN "source profile"
    ELSE "missing"

\* MissingError naming the profile the failing one was chained from
MissingErrorNamesChild(config) ==
    [kind |-> "credentials missing",
     profile |-> IF IsChained(config) THEN config.ChainedFromProfile
                 ELSE config.ProfileName]

\* vault.go:134
MissingError(config) ==
    [kind |-> "credentials missing", profile |-> config.ProfileName]

\* vault.go:120-135 with keyring.Has succeeding
ResolveSource ==
    /\ pc = "has"
    /\ LET config == cfg[Top]
           hasStoredCredentials == config.ProfileName \in keyring
           decision == SourceDecision(config, hasStoredCredentials)
       IN  /\ hasCalls' = Append(hasCalls, config.ProfileName)
           /\ IF decision = "stored"
              THEN /\ sourceCredProvider' = NewMasterCredentialsProvider(config.ProfileName)
                   /\ pc' = "strategy"
                   /\ UNCHANGED <<stack, retErr, retProvider>>
              ELSE IF decision = "source profile"
              THEN /\ Len(stack) < MaxFrames
                   /\ stack' = Append(stack, config.SourceProfile)
                   /\ pc' = "has"
                   /\ UNCHANGED <<sourceCredProvider, retErr, retProvider>>
              ELSE /\ retErr' = MissingError(config)
                   /\ retProvider' = NoProvider
                   /\ stack' = Pop
                   /\ pc' = AfterReturn(TRUE)
                   /\ UNCHANGED sourceCredProvider
    /\ UNCHANGED <<mfaChained, sourceOf, providerOf, firstRun>>
    /\ UNCHANGED <<cfgVars, cacheVars, locatorVars, formatVars>>

\* vault.go:120-123 with keyring.Has failing
HasFails ==
    /\ pc = "has"
    /\ hasCalls' = Append(hasCalls, cfg[Top].ProfileName)
    /\ retErr' = [kind |-> "keyring", profile |-> cfg[Top].ProfileName]
    /\ retProvider' = NoProvider
    /\ stack' = Pop
    /\ pc' = AfterReturn(TRUE)
    /\ UNCHANGED <<sourceCredProvider, mfaChained, sourceOf, providerOf, firstRun>>
    /\ UNCHANGED <<cfgVars, cacheVars, locatorVars, formatVars>>

\* vault.go:129-132: the recursive call returned an error
PropagateError ==
    /\ pc = "failed"
    /\ stack' = Pop
    /\ pc' = AfterReturn(TRUE)
    /\ UNCHANGED <<sourceCredProvider, retProvider, retErr, hasCalls, mfaChained,
                   sourceOf, providerOf, firstRun>>
    /\ UNCHANGED <<cfgVars, cacheVars, locatorVars, formatVars>>

\* The frame of profile p returns (prov, nil), having left its Config as c.
Return(p, c, prov, chained) ==
    /\ cfg' = [cfg EXCEPT ![p] = c]
    /\ mfaChained' = [mfaChained EXCEPT ![p] = IF chained THEN "true" ELSE "false"]
    /\ sourceOf' = [sourceOf EXCEPT ![p] = sourceCredProvider]
    /\ providerOf' = [providerOf EXCEPT ![p] = prov]
    /\ retProvider' = prov
    /\ sourceCredProvider' = prov
    /\ stack' = Pop
    /\ pc' = AfterReturn(FALSE)
    /\ UNCHANGED retErr

\* The frame of profile p returns (nil, err) because NewSession failed,
\* having left its Config as c.
ReturnSessionError(p, c, chained) ==
    /\ cfg' = [cfg EXCEPT ![p] = c]
    /\ mfaChained' = [mfaChained EXCEPT ![p] = IF chained THEN "true" ELSE "false"]
    /\ sourceOf' = [sourceOf EXCEPT ![p] = sourceCredProvider]
    /\ retErr' = [kind |-> "session", profile |-> p]
    /\ retProvider' = NoProvider
    /\ stack' = Pop
    /\ pc' = AfterReturn(TRUE)
    /\ UNCHANGED <<providerOf, sourceCredProvider>>

\* Strategy with the chain-skip checks ahead of the disabled check
StrategySkipFirst(config) ==
    IF config.RoleARN = ""
    THEN IF IsChained(config) /\ ~HasMfaSerial(cfg[config.ChainedFromProfile])
         THEN "no MFA serial defined"
         ELSE IF IsChained(config)
                 /\ cfg[config.ChainedFromProfile].MfaSerial # config.MfaSerial
         THEN "MFA serial doesn't match"
         ELSE IF ~UseSession
         THEN "GetSessionToken disabled"
         ELSE "GetSessionToken"
    ELSE "AssumeRole"

\* Strategy without the check that the parent's MFA serial is the profile's
StrategyNoMismatchCheck(config) ==
    IF config.RoleARN = ""
    THEN IF ~UseSession
         THEN "GetSessionToken disabled"
         ELSE IF IsChained(config) /\ ~HasMfaSerial(cfg[config.ChainedFromProfile])
         THEN "no MFA serial defined"
         ELSE "GetSessionToken"
    ELSE "AssumeRole"

\* Strategy without the check that the parent has an MFA serial
StrategyNoParentSerialCheck(config) ==
    IF config.RoleARN = ""
    THEN IF ~UseSession
         THEN "GetSessionToken disabled"
         ELSE IF IsChained(config)
                 /\ cfg[config.ChainedFromProfile].MfaSerial # config.MfaSerial
         THEN "MFA serial doesn't match"
         ELSE "GetSessionToken"
    ELSE "AssumeRole"

\* vault.go:140-167: the branch NewTempCredentialsProvider takes for config
Strategy(config) ==
    IF config.RoleARN = ""
    THEN IF ~UseSession
         THEN "GetSessionToken disabled"
         ELSE IF IsChained(config) /\ ~HasMfaSerial(cfg[config.ChainedFromProfile])
         THEN "no MFA serial defined"
         ELSE IF IsChained(config)
                 /\ cfg[config.ChainedFromProfile].MfaSerial # config.MfaSerial
         THEN "MFA serial doesn't match"
         ELSE "GetSessionToken"
    ELSE "AssumeRole"

\* Override taking the chain-level duration for unchained profiles too
OverrideUnchained(config, strategy) ==
    IF strategy = "GetSessionToken disabled"
    THEN [config EXCEPT !.MfaSerial = ""]
    ELSE IF strategy = "GetSessionToken"
    THEN [config EXCEPT !.GetSessionTokenDuration = config.ChainedGetSessionTokenDuration]
    ELSE config

\* Override clearing the MFA serial whenever GetSessionToken is not used
OverrideClearsSerialOnSkip(config, strategy) ==
    IF strategy \in {"GetSessionToken disabled", "no MFA serial defined",
                     "MFA serial doesn't match"}
    THEN [config EXCEPT !.MfaSerial = ""]
    ELSE IF strategy = "GetSessionToken" /\ IsChained(config)
    THEN [config EXCEPT !.GetSessionTokenDuration = config.ChainedGetSessionTokenDuration]
    ELSE config

\* Override leaving the profile's own session-token duration in place
OverrideKeepsDuration(config, strategy) ==
    IF strategy = "GetSessionToken disabled"
    THEN [config EXCEPT !.MfaSerial = ""]
    ELSE config

\* vault.go:143 and vault.go:158: config as the branch leaves it
Override(config, strategy) ==
    IF strategy = "GetSessionToken disabled"
    THEN [config EXCEPT !.MfaSerial = ""]
    ELSE IF strategy = "GetSessionToken" /\ IsChained(config)
    THEN [config EXCEPT !.GetSessionTokenDuration = config.ChainedGetSessionTokenDuration]
    ELSE config

\* vault.go:137-167
SelectStrategy ==
    /\ pc = "strategy"
    /\ LET config == cfg[Top]
           chained == MfaAlreadyUsedInSourceProfile(config)
           sourceCreds == sourceCredProvider
           strategy == Strategy(config)
           c == Override(config, strategy)
       IN  IF strategy = "GetSessionToken"
           THEN \/ Return(Top, c,
                          NewSessionTokenProvider(sourceCreds, c, UseSessionCache),
                          chained)
                \/ ReturnSessionError(Top, c, chained)
           ELSE IF strategy = "AssumeRole"
           THEN \/ Return(Top, c, NewAssumeRoleProvider(sourceCreds, c, chained),
                          chained)
                \/ ReturnSessionError(Top, c, chained)
           ELSE Return(Top, c, sourceCredProvider, chained)
    /\ UNCHANGED <<cfg0, keyring, UseSession, UseSessionCache, hasCalls, firstRun>>
    /\ UNCHANGED <<cacheVars, locatorVars, formatVars>>

Next ==
    \/ ResolveSource
    \/ HasFails
    \/ PropagateError
    \/ SelectStrategy

Spec == Init /\ [][Next]_vars

\* ------------------------------------------------- resolution, run twice
\* NewTempCredentialsProvider has returned and is called again for the same
\* profile, on the Configs as the first call left them.
RunAgain ==
    /\ pc = "done"
    /\ ~firstRun.ran
    /\ firstRun' = [ran |-> TRUE, cfg |-> cfg, mfaChained |-> mfaChained,
                    sourceOf |-> sourceOf, providerOf |-> providerOf,
                    retProvider |-> retProvider, retErr |-> retErr,
                    hasCalls |-> hasCalls]
    /\ stack' = <<1>>
    /\ pc' = "has"
    /\ sourceCredProvider' = NoProvider
    /\ retProvider' = NoProvider
    /\ retErr' = NoError
    /\ hasCalls' = <<>>
    /\ mfaChained' = [i \in Profiles |-> "unset"]
    /\ sourceOf' = [i \in Profiles |-> NoProvider]
    /\ providerOf' = [i \in Profiles |-> NoProvider]
    /\ UNCHANGED <<cfgVars, cacheVars, locatorVars, formatVars>>

NextTwice ==
    \/ ResolveSource
    \/ HasFails
    \/ PropagateError
    \/ SelectStrategy
    \/ RunAgain

\* the chains of Init with the session cache on and one chain-level duration
InitTwice ==
    /\ Init
    /\ UseSessionCache
    /\ cfg[1].ChainedGetSessionTokenDuration = 15

SpecTwice == InitTwice /\ [][NextTwice]_vars

\* ------------------------------------------- resolution of cyclic chains
\* Chains of n profiles whose last profile names profile back as its source
\* profile (back = Nil: the chain ends there).
Cycles(n) ==
    { [chain EXCEPT ![n].SourceProfile = back, ![n].SourceProfileName = back] :
        chain \in { c \in Chains(n) :
                      \A i \in 1..n :
                          /\ c[i].MfaSerial \in {"", "mfaA"}
                          /\ c[i].ChainedGetSessionTokenDuration = 15 },
        back \in 0..n }

InitCycle ==
    /\ \E n \in 1..MaxDepth :
         /\ cfg \in Cycles(n)
         /\ keyring \in SUBSET (1..n)
    /\ cfg0 = cfg
    /\ UseSession \in BOOLEAN
    /\ UseSessionCache = TRUE
    /\ stack = <<1>>
    /\ pc = "has"
    /\ sourceCredProvider = NoProvider
    /\ retProvider = NoProvider
    /\ retErr = NoError
    /\ hasCalls = <<>>
    /\ mfaChained = [i \in Profiles |-> "unset"]
    /\ sourceOf = [i \in Profiles |-> NoProvider]
    /\ providerOf = [i \in Profiles |-> NoProvider]
    /\ firstRun = NoRun
    /\ CacheIdle
    /\ LocatorIdle
    /\ FormatIdle

\* vault.go:129 with no room left for the frame of the recursive call: the Go
\* runtime ends the process.
ResolveStackOverflow ==
    /\ pc = "has"
    /\ SourceDecision(cfg[Top], cfg[Top].ProfileName \in keyring) = "source profile"
    /\ Len(stack) >= MaxFrames
    /\ pc' = "stack overflow"
    /\ hasCalls' = Append(hasCalls, cfg[Top].ProfileName)
    /\ UNCHANGED <<stack, sourceCredProvider, retProvider, retErr, mfaChained,
                   sourceOf, providerOf, firstRun>>
    /\ UNCHANGED <<cfgVars, cacheVars, locatorVars, formatVars>>

NextCycle ==
    \/ ResolveSource
    \/ HasFails
    \/ PropagateError
    \/ SelectStrategy
    \/ ResolveStackOverflow

\* the program is one goroutine that keeps running until it returns
SpecCycle == InitCycle /\ [][NextCycle]_vars /\ WF_vars(NextCycle)

\* ------------------------------------------------- Retrieve on the provider
\* Session tokens a previous invocation may have left in the keyring.
CachedEntries ==
    {NoCreds} \cup { [id |-> 1, Expiration |-> e] : e \in 0..MaxCachedExpiration }

\* Two profiles; the provider is built for profile t the way vault.go:162
\* builds it, from that profile's Config and its master credentials.
InitCache ==
    /\ \E t \in 1..2, mfa \in Serials \X MfaTokens \X PromptMethods,
          dur \in SessionDurations \cup ChainedDurations :
         /\ cfg = [i \in 1..2 |->
                     IF i = t
                     THEN ConfigOf(2, i, "", mfa, dur, 15)
                     ELSE ConfigOf(2, i, "role", <<"", "", "terminal">>, 60, 15)]
         /\ UseSessionCache \in BOOLEAN
         /\ provider = NewSessionTokenProvider(NewMasterCredentialsProvider(t),
                                               cfg[t], UseSessionCache)
         /\ sessions \in { f \in [1..2 -> CachedEntries] :
                             \A i \in 1..2 : i # t => f[i] \in {NoCreds, [id |-> 1, Expiration |-> 9]} }
    /\ cfg0 = cfg
    /\ keyring = 1..2
    /\ UseSession = TRUE
    /\ ResolveIdle
    /\ LocatorIdle
    /\ FormatIdle
    /\ now = 0
    /\ cpc = [p \in {1} |-> "idle"]
    /\ readEntry = [p \in {1} |-> NoRead]
    /\ fresh = [p \in {1} |-> NoCreds]
    /\ cret = [p \in {1} |-> NoReturn]
    /\ stpCalls = [p \in {1} |-> 0]
    /\ mfaCall = [p \in {1} |-> NoMfaCall]
    /\ retrieves = [p \in {1} |-> 0]
    /\ issued = {}

Invocations == DOMAIN cpc

Cached == provider.kind = "CachedSessionTokenProvider"

\* the SessionTokenProvider that issues for provider
Wrapped == IF Cached THEN provider.Provider ELSE provider

\* a cached entry e is still good at time t for a provider with window w
Fresh(e, t, w) == e # NoCreds /\ t + w < e.Expiration

\* Retrieve begins.  CachedSessionTokenProvider: read the keyring entry kept
\* under CredentialsName and return it when it is fresh.  SessionTokenProvider:
\* go and issue.
RetrieveBegin(p) ==
    /\ cpc[p] = "idle"
    /\ retrieves[p] < MaxRetrieves
    /\ retrieves' = [retrieves EXCEPT ![p] = @ + 1]
    /\ stpCalls' = [stpCalls EXCEPT ![p] = 0]
    /\ mfaCall' = [mfaCall EXCEPT ![p] = NoMfaCall]
    /\ fresh' = [fresh EXCEPT ![p] = NoCreds]
    /\ IF Cached
       THEN LET entry == sessions[provider.CredentialsName]
                hit == Fresh(entry, now, provider.ExpiryWindow)
            IN  /\ readEntry' = [readEntry EXCEPT ![p] =
                                    [entry |-> entry, at |-> now, hit |-> hit]]
                /\ IF hit
                   THEN /\ cret' = [cret EXCEPT ![p] =
                                       [creds |-> entry, err |-> "nil",
                                        fromCache |-> TRUE, at |-> now]]
                        /\ cpc' = [cpc EXCEPT ![p] = "returned"]
                   ELSE /\ cpc' = [cpc EXCEPT ![p] = "issue"]
                        /\ UNCHANGED cret
       ELSE /\ readEntry' = [readEntry EXCEPT ![p] = NoRead]
            /\ cpc' = [cpc EXCEPT ![p] = "issue"]
            /\ UNCHANGED cret
    /\ UNCHANGED <<provider, sessions, now, issued>>
    /\ UNCHANGED <<cfgVars, resolveVars, locatorVars, formatVars>>

\* what Retrieve hands back when it fails
Failure(err) == [creds |-> NoCreds, err |-> err, fromCache |-> FALSE, at |-> now]

\* SessionTokenProvider.Retrieve: get an MFA token when a serial is set, then
\* call GetSessionToken; promptFunc and ok are what the prompt and the service
\* answer.
IssueSessionToken(p) ==
    /\ cpc[p] = "issue"
    /\ stpCalls' = [stpCalls EXCEPT ![p] = @ + 1]
    /\ \E promptFunc \in PromptResults, ok \in BOOLEAN :
         LET stp == Wrapped
             needMfa == stp.Mfa.MfaSerial # ""
             token == GetMfaToken(stp.Mfa, promptFunc)
             creds == [id |-> Cardinality(issued) + 2,
                       Expiration |-> now + stp.Duration]
         IN  /\ mfaCall' = [mfaCall EXCEPT ![p] =
                              IF needMfa
                              THEN [called |-> TRUE, promptFunc |-> promptFunc,
                                    res |-> token]
                              ELSE NoMfaCall]
             /\ IF needMfa /\ token.err # "nil"
                THEN /\ cret' = [cret EXCEPT ![p] = Failure(token.err)]
                     /\ cpc' = [cpc EXCEPT ![p] = "returned"]
                     /\ UNCHANGED <<issued, fresh>>
                ELSE IF ~ok
                THEN /\ cret' = [cret EXCEPT ![p] = Failure("GetSessionToken failed")]
                     /\ cpc' = [cpc EXCEPT ![p] = "returned"]
                     /\ UNCHANGED <<issued, fresh>>
                ELSE /\ issued' = issued \cup {creds}
                     /\ fresh' = [fresh EXCEPT ![p] = creds]
                     /\ IF Cached
                        THEN /\ cpc' = [cpc EXCEPT ![p] = "write"]
                             /\ UNCHANGED cret
                        ELSE /\ cpc' = [cpc EXCEPT ![p] = "returned"]
                             /\ cret' = [cret EXCEPT ![p] =
                                            [creds |-> creds, err |-> "nil",
                                             fromCache |-> FALSE, at |-> now]]
    /\ UNCHANGED <<provider, sessions, now, readEntry, retrieves>>
    /\ UNCHANGED <<cfgVars, resolveVars, locatorVars, formatVars>>

\* CacheWrite putting back the entry Retrieve had read
CacheWriteStale(p) ==
    /\ cpc[p] = "write"
    /\ sessions' = [sessions EXCEPT ![provider.CredentialsName] = readEntry[p].entry]
    /\ cret' = [cret EXCEPT ![p] = [creds |-> fresh[p], err |-> "nil",
                                    fromCache |-> FALSE, at |-> now]]
    /\ cpc' = [cpc EXCEPT ![p] = "returned"]
    /\ UNCHANGED <<provider, now, readEntry, fresh, stpCalls, mfaCall, retrieves,
                   issued>>
    /\ UNCHANGED <<cfgVars, resolveVars, locatorVars, formatVars>>

\* CachedSessionTokenProvider.Retrieve after a successful issuance: store the
\* credentials under CredentialsName, then return them.
CacheWrite(p) ==
    /\ cpc[p] = "write"
    /\ sessions' = [sessions EXCEPT ![provider.CredentialsName] = fresh[p]]
    /\ cret' = [cret EXCEPT ![p] = [creds |-> fresh[p], err |-> "nil",
                                    fromCache |-> FALSE, at |-> now]]
    /\ cpc' = [cpc EXCEPT ![p] = "returned"]
    /\ UNCHANGED <<provider, now, readEntry, fresh, stpCalls, mfaCall, retrieves,
                   issued>>
    /\ UNCHANGED <<cfgVars, resolveVars, locatorVars, formatVars>>

\* The caller has its credentials and may ask again.
RetrieveEnd(p) ==
    /\ cpc[p] = "returned"
    /\ retrieves[p] < MaxRetrieves
    /\ cpc' = [cpc EXCEPT ![p] = "idle"]
    /\ UNCHANGED <<provider, sessions, now, readEntry, fresh, cret, stpCalls,
                   mfaCall, retrieves, issued>>
    /\ UNCHANGED <<cfgVars, resolveVars, locatorVars, formatVars>>

\* A minute passes.
Tick ==
    /\ now < MaxNow
    /\ now' = now + 1
    /\ UNCHANGED <<provider, sessions, cpc, readEntry, fresh, cret, stpCalls,
                   mfaCall, retrieves, issued>>
    /\ UNCHANGED <<cfgVars, resolveVars, locatorVars, formatVars>>

NextCache ==
    \/ \E p \in Invocations : RetrieveBegin(p)
    \/ \E p \in Invocations : IssueSessionToken(p)
    \/ \E p \in Invocations : CacheWrite(p)
    \/ \E p \in Invocations : RetrieveEnd(p)
    \/ Tick

SpecCache == InitCache /\ [][NextCache]_vars

\* ------------------------------------------- two invocations, one profile
\* Two invocations of the program hold the provider vault.go:162 builds for
\* profile 1 and share the keyring; the entry found there, if any, was issued
\* to an earlier invocation and expires around the time the window ends.
InitRace ==
    /\ \E mfa \in {"", "mfaA"} \X {""} \X {"terminal"} :
         cfg = [i \in 1..2 |->
                  IF i = 1
                  THEN ConfigOf(2, i, "", mfa, 15, 15)
                  ELSE ConfigOf(2, i, "role", <<"", "", "terminal">>, 60, 15)]
    /\ UseSessionCache = TRUE
    /\ provider = NewSessionTokenProvider(NewMasterCredentialsProvider(1),
                                          cfg[1], UseSessionCache)
    /\ sessions \in { f \in [1..2 -> CachedEntries] :
                        /\ f[2] = NoCreds
                        /\ f[1] # NoCreds =>
                               f[1].Expiration \in defaultExpirationWindow ..
                                   (defaultExpirationWindow + MaxNow + 1) }
    /\ issued = { sessions[1] } \ {NoCreds}
    /\ cfg0 = cfg
    /\ keyring = 1..2
    /\ UseSession = TRUE
    /\ ResolveIdle
    /\ LocatorIdle
    /\ FormatIdle
    /\ now = 0
    /\ cpc = [p \in 1..2 |-> "idle"]
    /\ readEntry = [p \in 1..2 |-> NoRead]
    /\ fresh = [p \in 1..2 |-> NoCreds]
    /\ cret = [p \in 1..2 |-> NoReturn]
    /\ stpCalls = [p \in 1..2 |-> 0]
    /\ mfaCall = [p \in 1..2 |-> NoMfaCall]
    /\ retrieves = [p \in 1..2 |-> 0]

SpecRace == InitRace /\ [][NextCache]_vars

\* ---------------------------------------------------- MasterCredentialsFor
\* NewFederationTokenCredentials calls MasterCredentialsFor with a profile's
\* name and its Config (vault.go:198).
InitLocator ==
    /\ \E n \in 1..MaxDepth :
         /\ cfg \in Chains(n)
         /\ keyring \in SUBSET (1..n)
         /\ lConfig \in 1..n
    /\ cfg0 = cfg
    /\ UseSession = TRUE
    /\ UseSessionCache = TRUE
    /\ ResolveIdle
    /\ CacheIdle
    /\ FormatIdle
    /\ lName = cfg[lConfig].ProfileName
    /\ lHops = 0
    /\ lPc = "has"
    /\ lRet = [name |-> Nil, err |-> "nil"]

\* vault.go:231: the arguments of the recursive call made by a call with
\* arguments (profileName, config)
RecursiveCall(profileName, config) ==
    [profileName |-> cfg[config].SourceProfileName, config |-> config]

\* vault.go:222-231 with keyring.Has succeeding
MasterCredentialsFor ==
    /\ lPc = "has"
    /\ LET hasMasterCreds == lName \in keyring
       IN  IF hasMasterCreds
           THEN /\ lRet' = [name |-> lName, err |-> "nil"]
                /\ lPc' = "done"
                /\ UNCHANGED <<lName, lConfig, lHops>>
           ELSE /\ lHops < MaxHops
                /\ lName' = RecursiveCall(lName, lConfig).profileName
                /\ lConfig' = RecursiveCall(lName, lConfig).config
                /\ lHops' = lHops + 1
                /\ UNCHANGED <<lPc, lRet>>
    /\ UNCHANGED <<cfgVars, resolveVars, cacheVars, formatVars>>

\* vault.go:222-225 with keyring.Has failing
MasterCredentialsForHasFails ==
    /\ lPc = "has"
    /\ lRet' = [name |-> Nil, err |-> "keyring"]
    /\ lPc' = "done"
    /\ UNCHANGED <<lName, lConfig, lHops>>
    /\ UNCHANGED <<cfgVars, resolveVars, cacheVars, formatVars>>

\* vault.go:231 with no room left for another frame: the runtime ends the
\* program
StackOverflow ==
    /\ lPc = "has"
    /\ lName \notin keyring
    /\ lHops = MaxHops
    /\ lPc' = "stack overflow"
    /\ UNCHANGED <<lName, lConfig, lHops, lRet>>
    /\ UNCHANGED <<cfgVars, resolveVars, cacheVars, formatVars>>

NextLocator ==
    \/ MasterCredentialsFor
    \/ MasterCredentialsForHasFails
    \/ StackOverflow

SpecLocator == InitLocator /\ [][NextLocator]_vars

\* ----------------------------------------------------- FormatKeyForDisplay
KeyChars == {"A", "K"}

\* a 20-character access key id
ExampleKey ==
    << "A", "K", "I", "A", "I", "O", "S", "F", "O", "D",
       "N", "N", "7", "E", "X", "A", "M", "P", "L", "E" >>

Keys ==
    UNION { [1..n -> KeyChars] : n \in 0..MaxKeyLen } \cup {ExampleKey}

\* the literal "****************" of vault.go:26
Asterisks == [i \in 1..16 |-> "*"]

\* vault.go:26: k[len(k)-4:] panics when len(k) < 4
FormatKeyForDisplay(k) ==
    IF Len(k) - 4 < 0
    THEN [panicked |-> TRUE, out |-> <<>>]
    ELSE [panicked |-> FALSE,
          out |-> Asterisks \o SubSeq(k, Len(k) - 4 + 1, Len(k))]

InitFormat ==
    /\ cfg \in Chains(1)
    /\ cfg0 = cfg
    /\ keyring = {}
    /\ UseSession = TRUE
    /\ UseSessionCache = TRUE
    /\ ResolveIdle
    /\ CacheIdle
    /\ LocatorIdle
    /\ fKey \in Keys
    /\ fPc = "call"
    /\ fOut = NoOutput

CallFormatKeyForDisplay ==
    /\ fPc = "call"
    /\ fOut' = FormatKeyForDisplay(fKey)
    /\ fPc' = "done"
    /\ UNCHANGED fKey
    /\ UNCHANGED <<cfgVars, resolveVars, cacheVars, locatorVars>>

NextFormat == CallFormatKeyForDisplay

SpecFormat == InitFormat /\ [][NextFormat]_vars

\* ================================================================== claims
Range(seq) == { seq[k] : k \in DOMAIN seq }

RECURSIVE Ancestors(_)
\* the profiles on the source-profile chain of p, p excluded
Ancestors(p) ==
    IF cfg0[p].SourceProfile = Nil THEN {}
    ELSE {cfg0[p].SourceProfile} \cup Ancestors(cfg0[p].SourceProfile)

\* the last ancestor of profile 1: the one with no source profile
Root == CHOOSE p \in Profiles : cfg0[p].SourceProfile = Nil

\* the frame of p has returned a provider
Returned(p) == providerOf[p] # NoProvider

\* the frame of p has passed vault.go:137
Reached(p) == mfaChained[p] # "unset"

\* the frame of p has built a provider of its own on top of its source
Built(p) == Returned(p) /\ providerOf[p] # sourceOf[p]

\* the frame of p has built an AssumeRoleProvider
AssumesRole(p) == Built(p) /\ providerOf[p].kind = "AssumeRoleProvider"

Parent(p) == cfg0[p].ChainedFromProfile

IssuesSessionToken(prov) ==
    prov.kind \in {"SessionTokenProvider", "CachedSessionTokenProvider"}

\* the SessionTokenProvider inside prov
StpOf(prov) ==
    IF prov.kind = "CachedSessionTokenProvider" THEN prov.Provider ELSE prov

\* C1 (as stated): resolving a profile with stored master credentials yields
\* a KeyringProvider for it.
C1_YieldsKeyringProvider ==
    \A p \in Profiles :
        (p \in keyring /\ Returned(p)) => providerOf[p].kind = "KeyringProvider"

\* C1 (amended): a profile with stored master credentials takes a
\* KeyringProvider for itself as its source provider, whether or not it has a
\* source profile, and what it returns is that KeyringProvider or a provider
\* issuing from it; keyring.Has is never called on any of its ancestors and
\* none of them is resolved.
C1_StoredCredentialsAreTheSource ==
    \A p \in Profiles :
        p \in keyring =>
            /\ (pc = "strategy" /\ Top = p) =>
                   sourceCredProvider = NewMasterCredentialsProvider(p)
            /\ Reached(p) => sourceOf[p] = NewMasterCredentialsProvider(p)
            /\ Returned(p) =>
                   \/ providerOf[p] = NewMasterCredentialsProvider(p)
                   \/ /\ providerOf[p].kind # "KeyringProvider"
                      /\ StpOf(providerOf[p]).Source = NewMasterCredentialsProvider(p)
            /\ \A q \in Ancestors(p) :
                   /\ q \notin Range(hasCalls)
                   /\ q \notin Range(stack)
                   /\ ~Reached(q)

C1_Witness ==
    /\ pc = "done"
    /\ {1, 2} \subseteq keyring
    /\ HasSourceProfile(cfg0[1])
    /\ providerOf[1].kind = "AssumeRoleProvider"
    /\ providerOf[1].Source = NewMasterCredentialsProvider(1)
    /\ hasCalls = <<1>>

\* C2: on a chain where no profile has stored credentials and keyring.Has
\* never fails, resolution returns no provider and a "credentials missing"
\* error naming the root profile, having asked the keyring about each profile.
C2_MissingNamesRoot ==
    (keyring = {} /\ pc = "done" /\ retErr.kind # "keyring") =>
        /\ retProvider = NoProvider
        /\ retErr = [kind |-> "credentials missing", profile |-> Root]
        /\ hasCalls = [k \in 1..Cardinality(Profiles) |-> k]
        /\ \A p \in Profiles : ~Returned(p)

C2_Witness ==
    /\ keyring = {}
    /\ pc = "done"
    /\ Cardinality(Profiles) >= 3
    /\ retErr.kind = "credentials missing"
    /\ retErr.profile = Root

\* C3: the AssumeRoleProvider built for a profile with a role ARN carries no
\* MFA serial when the mfaChained computed for that hop is true, and the
\* profile's configured serial when it is false.
C3_AssumeRoleMfa ==
    \A p \in Profiles :
        /\ (cfg0[p].RoleARN # "" /\ Returned(p)) => AssumesRole(p)
        /\ AssumesRole(p) =>
               /\ cfg0[p].RoleARN # ""
               /\ (mfaChained[p] = "true" => providerOf[p].Mfa.MfaSerial = "")
               /\ (mfaChained[p] = "false" =>
                      providerOf[p].Mfa.MfaSerial = cfg0[p].MfaSerial)

C3_Witness ==
    \E p, q \in Profiles :
        /\ AssumesRole(p)
        /\ mfaChained[p] = "true"
        /\ cfg0[p].MfaSerial # ""
        /\ providerOf[p].Mfa.MfaSerial = ""
        /\ AssumesRole(q)
        /\ mfaChained[q] = "false"
        /\ providerOf[q].Mfa.MfaSerial # ""

\* C4: with session-token issuance disabled, a profile with no role ARN
\* returns its source provider unchanged and is left with an empty MFA serial,
\* chained or not and whatever its parent's MFA serial is.
C4_DisabledReturnsSource ==
    \A p \in Profiles :
        (~UseSession /\ cfg0[p].RoleARN = "" /\ Reached(p)) =>
            /\ Returned(p)
            /\ providerOf[p] = sourceOf[p]
            /\ cfg[p].MfaSerial = ""

C4_Witness ==
    /\ ~UseSession
    /\ \E p \in Profiles :
         /\ cfg0[p].RoleARN = ""
         /\ IsChained(cfg0[p])
         /\ cfg0[p].MfaSerial # ""
         /\ cfg0[Parent(p)].MfaSerial = ""
         /\ Returned(p)
         /\ cfg[p].MfaSerial = ""
    /\ \E p \in Profiles :
         /\ cfg0[p].RoleARN = ""
         /\ ~IsChained(cfg0[p])
         /\ cfg0[p].MfaSerial # ""
         /\ Returned(p)

\* C5: with session-token issuance enabled, a profile with no role ARN that is
\* chained from a parent with no MFA serial returns its source provider
\* directly, even when it has an MFA serial of its own.
C5_ParentWithoutMfaSkips ==
    \A p \in Profiles :
        ( /\ UseSession
          /\ cfg0[p].RoleARN = ""
          /\ IsChained(cfg0[p])
          /\ cfg0[Parent(p)].MfaSerial = ""
          /\ Reached(p) ) =>
            /\ Returned(p)
            /\ providerOf[p] = sourceOf[p]
            /\ cfg[p] = cfg0[p]

C5_Witness ==
    /\ UseSession
    /\ \E p \in Profiles :
         /\ cfg0[p].RoleARN = ""
         /\ IsChained(cfg0[p])
         /\ cfg0[Parent(p)].MfaSerial = ""
         /\ cfg0[p].MfaSerial # ""
         /\ providerOf[p] = NewMasterCredentialsProvider(p)

\* C6: with session-token issuance enabled, a profile with no role ARN that is
\* chained from a parent with the same non-empty MFA serial gets a
\* SessionTokenProvider whose duration is the parent's chain-level override,
\* not the profile's own session-token duration.
C6_ChainedDuration ==
    \A p \in Profiles :
        ( /\ UseSession
          /\ cfg0[p].RoleARN = ""
          /\ IsChained(cfg0[p])
          /\ cfg0[p].MfaSerial # ""
          /\ cfg0[Parent(p)].MfaSerial = cfg0[p].MfaSerial
          /\ Returned(p) ) =>
            /\ IssuesSessionToken(providerOf[p])
            /\ StpOf(providerOf[p]).Duration =
                   cfg0[Parent(p)].ChainedGetSessionTokenDuration
            /\ StpOf(providerOf[p]).Mfa.MfaSerial = cfg0[p].MfaSerial

C6_Witness ==
    /\ UseSession
    /\ \E p \in Profiles :
         /\ cfg0[p].RoleARN = ""
         /\ IsChained(cfg0[p])
         /\ cfg0[p].MfaSerial # ""
         /\ cfg0[Parent(p)].MfaSerial = cfg0[p].MfaSerial
         /\ IssuesSessionToken(providerOf[p])
         /\ cfg0[p].GetSessionTokenDuration # cfg0[p].ChainedGetSessionTokenDuration
         /\ StpOf(providerOf[p]).Duration # cfg0[p].GetSessionTokenDuration

\* the profile the provider in use was built for
Target == Wrapped.Source.Name

\* the entry p read was present with more than 5 minutes left when read
ReadFresh(p) ==
    /\ readEntry[p].entry # NoCreds
    /\ readEntry[p].at + 5 < readEntry[p].entry.Expiration

\* C7: Retrieve on the cached provider returns the keyring entry unchanged,
\* without calling the wrapped SessionTokenProvider, if and only if the entry
\* is present and now + 5 minutes < its expiration; otherwise it calls the
\* wrapped provider exactly once.  What comes from the cache has more than 5
\* minutes left when returned.
C7_CacheFreshness ==
    \A p \in Invocations :
        Cached =>
            /\ cpc[p] = "issue" => (~ReadFresh(p) /\ stpCalls[p] = 0)
            /\ cpc[p] = "write" => (~ReadFresh(p) /\ stpCalls[p] = 1)
            /\ (cpc[p] = "returned" /\ ReadFresh(p)) =>
                   /\ stpCalls[p] = 0
                   /\ cret[p] = [creds |-> readEntry[p].entry, err |-> "nil",
                                 fromCache |-> TRUE, at |-> readEntry[p].at]
                   /\ sessions[Target] = readEntry[p].entry
            /\ (cpc[p] = "returned" /\ ~ReadFresh(p)) =>
                   /\ stpCalls[p] = 1
                   /\ ~cret[p].fromCache
            /\ (cpc[p] = "returned" /\ cret[p].fromCache) =>
                   cret[p].at + 5 < cret[p].creds.Expiration

C7_Witness ==
    /\ Cached
    /\ retrieves[1] = 2
    /\ cpc[1] = "returned"
    /\ cret[1].fromCache
    /\ cret[1].creds \in issued
    /\ stpCalls[1] = 0

\* C8: on a cache miss, when the wrapped provider succeeds the keyring entry
\* under the profile's name is the newly issued credentials when Retrieve
\* returns them; when it fails the error is returned and no entry is written.
\* No step removes an entry or touches another profile's entry.
C8_WriteThrough ==
    [][ /\ \A p \in Invocations :
             (Cached /\ cpc[p] # "returned" /\ cpc'[p] = "returned"
                /\ ~cret'[p].fromCache) =>
                 IF cret'[p].err = "nil"
                 THEN /\ cret'[p].creds \in issued
                      /\ cret'[p].creds = fresh[p]
                      /\ sessions'[Target] = cret'[p].creds
                 ELSE /\ cret'[p].creds = NoCreds
                      /\ sessions' = sessions
                      /\ sessions[Target] = readEntry[p].entry
        /\ \A i \in DOMAIN sessions :
             /\ sessions[i] # NoCreds => sessions'[i] # NoCreds
             /\ i # Target => sessions'[i] = sessions[i]
             /\ sessions'[i] # sessions[i] => sessions'[i] \in issued
      ]_vars

C8_Witness ==
    /\ Cached
    /\ cpc[1] = "returned"
    /\ ~cret[1].fromCache
    /\ cret[1].err = "nil"
    /\ readEntry[1].entry # NoCreds
    /\ sessions[Target] = cret[1].creds
    /\ sessions[Target] # readEntry[1].entry

\* C10: GetMfaToken returns the static token without prompting when one is
\* configured; otherwise, with a prompt method configured, it prompts exactly
\* once and returns the token and error the prompt produced; otherwise it
\* fails with "No prompt found" and returns no token.
C10_MfaPrecedence ==
    \A p \in Invocations :
        mfaCall[p].called =>
            LET m == Wrapped.Mfa
                res == mfaCall[p].res
            IN  /\ m.MfaToken # "" =>
                       res = [token |-> m.MfaToken, err |-> "nil", prompts |-> <<>>]
                /\ (m.MfaToken = "" /\ m.MfaPromptMethod # "") =>
                       res = [token |-> mfaCall[p].promptFunc.token,
                              err |-> mfaCall[p].promptFunc.err,
                              prompts |-> <<m.MfaSerial>>]
                /\ (m.MfaToken = "" /\ m.MfaPromptMethod = "") =>
                       res = [token |-> "<nil>", err |-> "No prompt found",
                              prompts |-> <<>>]

C10_Witness ==
    /\ mfaCall[1].called
    /\ Wrapped.Mfa.MfaToken # ""
    /\ Wrapped.Mfa.MfaPromptMethod # ""
    /\ mfaCall[1].res.prompts = <<>>
    /\ mfaCall[1].res.token = Wrapped.Mfa.MfaToken

\* the chain is profile 1 -> parent 2 -> grandparent 3, only the grandparent
\* has stored credentials, and MasterCredentialsFor was called for profile 1
GrandparentOnly ==
    /\ Cardinality(Profiles) = 3
    /\ keyring = {3}
    /\ lConfig = 1

\* C9: on a chain profile -> parent -> grandparent where only the grandparent
\* has stored credentials and keyring.Has never fails, MasterCredentialsFor
\* asks about the parent on its first hop and the grandparent on its second,
\* makes no third hop, and returns the grandparent's name.
C9_GrandparentAfterTwoHops ==
    GrandparentOnly =>
        /\ lHops <= 2
        /\ lHops = 1 => lName = 2
        /\ lHops = 2 => lName = 3
        /\ (lPc # "has" /\ lRet.err = "nil") =>
               (lPc = "done" /\ lRet.name = 3 /\ lHops = 2)

\* C11: for every key, FormatKeyForDisplay returns 16 asterisks followed by
\* the last 4 characters of the key, and nothing else of the key.
C11_MasksAllButLastFour ==
    fPc = "done" =>
        /\ ~fOut.panicked
        /\ Len(fOut.out) = 20
        /\ \A i \in 1..16 : fOut.out[i] = "*"
        /\ \A i \in 1..4 :
             /\ Len(fKey) - 4 + i >= 1
             /\ fOut.out[16 + i] = fKey[Len(fKey) - 4 + i]

RECURSIVE IssuanceSerials(_)
\* the MFA serials carried by the SessionToken and AssumeRole providers of the
\* provider chain prov, outermost first
IssuanceSerials(prov) ==
    IF prov.kind \in {"nil", "KeyringProvider"} THEN <<>>
    ELSE <<StpOf(prov).Mfa.MfaSerial>> \o IssuanceSerials(StpOf(prov).Source)

Count(seq, x) == Cardinality({ k \in DOMAIN seq : seq[k] = x })

\* C12: in the provider chain a resolution returns, no non-empty MFA serial
\* is carried by more than one issuance provider.
C12_OneProviderPerSerial ==
    (pc = "done" /\ retProvider # NoProvider) =>
        \A serial \in Serials \ {""} :
            Count(IssuanceSerials(retProvider), serial) <= 1

\* C13: whatever the resolution has done so far, a Config differs from the
\* Config as constructed at most in its MFA serial, cleared, for a profile
\* with no role ARN when session-token issuance is disabled, and in its
\* session-token duration, replaced by the chain-level override, for a chained
\* profile with no role ARN whose parent has the same non-empty MFA serial
\* when issuance is enabled.
C13_ConfigFrame ==
    \A p \in Profiles :
        /\ [cfg[p] EXCEPT !.MfaSerial = cfg0[p].MfaSerial,
                          !.GetSessionTokenDuration = cfg0[p].GetSessionTokenDuration]
               = cfg0[p]
        /\ cfg[p].MfaSerial # cfg0[p].MfaSerial =>
               /\ ~UseSession
               /\ cfg0[p].RoleARN = ""
               /\ cfg[p].MfaSerial = ""
               /\ Reached(p)
        /\ cfg[p].GetSessionTokenDuration # cfg0[p].GetSessionTokenDuration =>
               /\ UseSession
               /\ cfg0[p].RoleARN = ""
               /\ IsChained(cfg0[p])
               /\ cfg0[p].MfaSerial # ""
               /\ cfg0[Parent(p)].MfaSerial = cfg0[p].MfaSerial
               /\ cfg[p].GetSessionTokenDuration =
                      cfg0[p].ChainedGetSessionTokenDuration
               /\ Reached(p)
        /\ cfg0[p].RoleARN # "" => cfg[p] = cfg0[p]
        /\ ( /\ UseSession
             /\ IsChained(cfg0[p])
             /\ \/ cfg0[Parent(p)].MfaSerial = ""
                \/ cfg0[Parent(p)].MfaSerial # cfg0[p].MfaSerial ) =>
               cfg[p] = cfg0[p]

C13_Witness ==
    /\ pc = "done"
    /\ retProvider # NoProvider
    /\ \E p, q, r \in Profiles :
         /\ cfg[p].GetSessionTokenDuration # cfg0[p].GetSessionTokenDuration
         /\ IsChained(cfg0[q])
         /\ cfg0[q].RoleARN = ""
         /\ cfg0[q].MfaSerial # ""
         /\ cfg0[Parent(q)].MfaSerial # cfg0[q].MfaSerial
         /\ Returned(q)
         /\ cfg0[r].RoleARN # ""
         /\ Returned(r)

\* C14: with session-token issuance enabled, a chained profile with no role
\* ARN whose parent has a different non-empty MFA serial returns its source
\* provider directly; a chained profile with no role ARN gets a
\* SessionTokenProvider exactly when its parent's MFA serial is non-empty and
\* is its own.
C14_MismatchSkips ==
    \A p \in Profiles :
        (UseSession /\ cfg0[p].RoleARN = "" /\ IsChained(cfg0[p]) /\ Returned(p)) =>
            /\ ( /\ cfg0[Parent(p)].MfaSerial # ""
                 /\ cfg0[Parent(p)].MfaSerial # cfg0[p].MfaSerial ) =>
                   (providerOf[p] = sourceOf[p] /\ cfg[p] = cfg0[p])
            /\ (Built(p) /\ IssuesSessionToken(providerOf[p])) <=>
                   ( /\ cfg0[Parent(p)].MfaSerial # ""
                     /\ cfg0[Parent(p)].MfaSerial = cfg0[p].MfaSerial )

C14_Witness ==
    /\ UseSession
    /\ \E p \in Profiles :
         /\ cfg0[p].RoleARN = ""
         /\ IsChained(cfg0[p])
         /\ cfg0[p].MfaSerial # ""
         /\ cfg0[Parent(p)].MfaSerial # ""
         /\ cfg0[Parent(p)].MfaSerial # cfg0[p].MfaSerial
         /\ Returned(p)
         /\ providerOf[p] = sourceOf[p]

\* C15: once keyring.Has has failed, for whichever profile, no provider is
\* returned, the error travels up unchanged, the failed call was the last
\* keyring call, no profile was asked about twice, no frame went on to choose
\* a strategy and every Config is as constructed.
C15_KeyringFailure ==
    retErr.kind = "keyring" =>
        /\ pc \in {"failed", "done"}
        /\ retProvider = NoProvider
        /\ hasCalls = [k \in 1..retErr.profile |-> k]
        /\ Len(stack) < retErr.profile
        /\ \A p \in Profiles : ~Reached(p) /\ ~Returned(p)
        /\ cfg = cfg0

C15_Witness ==
    /\ retErr = [kind |-> "keyring", profile |-> 3]
    /\ pc = "done"
    /\ stack = <<>>
    /\ UseSession = FALSE
    /\ \A p \in Profiles : cfg0[p].RoleARN = "" /\ cfg0[p].MfaSerial # ""

\* the source-profile references lead back to a profile of the chain
Cyclic == cfg0[Cardinality(Profiles)].SourceProfile # Nil

\* the profiles on the cycle
OnCycle == { p \in Profiles : Cyclic /\ p >= cfg0[Cardinality(Profiles)].SourceProfile }

\* C16: on an acyclic chain, and on a cyclic one with stored credentials
\* somewhere, NewTempCredentialsProvider returns, with a provider or an error;
\* on an acyclic chain keyring.Has is called at most once per profile, in
\* chain order, and every profile asked about before the last one had no
\* stored credentials; the recursion runs out of stack only on a cyclic chain
\* with no stored credentials on the cycle.
C16_Termination ==
    /\ (~Cyclic \/ keyring # {}) =>
           <>(pc = "done" /\ stack = <<>>
                 /\ (retProvider # NoProvider) # (retErr # NoError))
    /\ [](~Cyclic =>
             /\ hasCalls = [k \in 1..Len(hasCalls) |-> k]
             /\ Len(hasCalls) <= Cardinality(Profiles)
             /\ \A k \in 1..(Len(hasCalls) - 1) : hasCalls[k] \notin keyring)
    /\ [](pc = "stack overflow" => Cyclic /\ OnCycle \cap keyring = {})

C16_Witness ==
    /\ ~Cyclic
    /\ Cardinality(Profiles) = 3
    /\ keyring = {2, 3}
    /\ hasCalls = <<1, 2>>
    /\ pc = "done"
    /\ retProvider # NoProvider

\* C17: with two invocations running the cached Retrieve for one profile in
\* any interleaving, whatever an invocation returns without error was issued
\* by the service and had more than 5 minutes left when it was read from the
\* keyring or when it was issued; the keyring entry is an issued credential,
\* and is empty only as long as no invocation has returned one; the entry
\* changes only by one invocation's write of the whole credential it was
\* issued.
C17_RaceSafe ==
    /\ [](\A p \in Invocations :
             (cpc[p] = "returned" /\ cret[p].err = "nil") =>
                 /\ cret[p].creds \in issued
                 /\ IF cret[p].fromCache
                    THEN cret[p].at + 5 < cret[p].creds.Expiration
                    ELSE LET at == cret[p].creds.Expiration - Wrapped.Duration
                         IN  /\ at \in 0..cret[p].at
                             /\ at + 5 < cret[p].creds.Expiration)
    /\ [](/\ sessions[Target] \in issued \cup {NoCreds}
          /\ sessions[Target] = NoCreds =>
                 \A p \in Invocations : cret[p].creds = NoCreds)
    /\ [][sessions' # sessions =>
            \E p \in Invocations :
                /\ cpc[p] = "write"
                /\ cpc'[p] = "returned"
                /\ fresh[p] \in issued
                /\ sessions' = [sessions EXCEPT ![Target] = fresh[p]]]_vars

\* both invocations missed on the same entry and were issued credentials;
\* the one issued first was written last and is what the keyring holds
C17_Witness ==
    /\ \A p \in Invocations :
          /\ cpc[p] = "returned"
          /\ retrieves[p] = 1
          /\ ~cret[p].fromCache
          /\ cret[p].err = "nil"
    /\ readEntry[1] = readEntry[2]
    /\ cret[1].creds.id < cret[2].creds.id
    /\ sessions[Target] = cret[1].creds

\* the frame of profile p got as far as vault.go:137 in the first run
ReachedBefore(p) == firstRun.mfaChained[p] # "unset"

\* the frame of profile p returned a provider in the first run
ReturnedBefore(p) == firstRun.providerOf[p] # NoProvider

\* C19: in a second run on the same Configs, with the keyring and the flags
\* as they were, every profile whose frame returns a provider in both runs
\* gets the same provider (kind, MFA serial and duration, on the same source
\* provider) in the second run as in the first, and the Config of every
\* profile the first run got to stays as the first run left it; when neither
\* run meets a keyring or session failure the two runs ask the keyring about
\* the same profiles, return the same provider or error and leave every
\* Config the same.
C19_Idempotent ==
    firstRun.ran =>
        /\ \A p \in Profiles :
              /\ (Returned(p) /\ ReturnedBefore(p)) =>
                     /\ providerOf[p] = firstRun.providerOf[p]
                     /\ sourceOf[p] = firstRun.sourceOf[p]
              /\ ReachedBefore(p) => cfg[p] = firstRun.cfg[p]
        /\ ( /\ pc = "done"
             /\ retErr.kind \notin {"keyring", "session"}
             /\ firstRun.retErr.kind \notin {"keyring", "session"} ) =>
                /\ cfg = firstRun.cfg
                /\ providerOf = firstRun.providerOf
                /\ retProvider = firstRun.retProvider
                /\ retErr = firstRun.retErr
                /\ hasCalls = firstRun.hasCalls

\* the first run overrode a session-token duration in a Config and the second
\* run has returned
C19_Witness ==
    /\ firstRun.ran
    /\ pc = "done"
    /\ retProvider # NoProvider
    /\ firstRun.cfg # cfg0
    /\ \E p \in Profiles :
          /\ Built(p)
          /\ IssuesSessionToken(providerOf[p])
          /\ firstRun.cfg[p].GetSessionTokenDuration # cfg0[p].GetSessionTokenDuration

\* C18: when the AssumeRoleProvider built for a profile with an MFA serial
\* leaves the serial out, an issuance provider in the chain of its source
\* provider carries that serial.
C18_MfaNotDropped ==
    \A p \in Profiles :
        ( /\ AssumesRole(p)
          /\ cfg0[p].MfaSerial # ""
          /\ providerOf[p].Mfa.MfaSerial = "" ) =>
            Count(IssuanceSerials(sourceOf[p]), cfg0[p].MfaSerial) >= 1

====
